---- MODULE Spec2Model ----
(***************************************************************************)
(* A model of the github-agent backend: the /api/chat and /api/search      *)
(* handlers of server/routes/chat.js on top of the gh-CLI search service   *)
(* of server/services/github.js, run by one single-threaded event loop.    *)
(***************************************************************************)
EXTENDS Integers, Sequences, FiniteSets, TLC

VARIABLES
    req,        \* per request: the handler's locals, its position and its response
    cpu,        \* the request whose synchronous code holds the event loop, or None
    faultsLeft, \* how many more gh invocations the environment may make fail
    kwLimit,    \* the longest keyword list the keyword extractor returns
    items,      \* deduplicateByUrl exercised on its own: the argument ...
    out         \* ... and whether it was called, with the value returned

vars == <<req, cpu, faultsLeft, kwLimit, items, out>>

-----------------------------------------------------------------------------
(* Bounds of the model. *)

\* longest record list handed to deduplicateByUrl on its own
MaxLen == 3
\* longest keyword list of a request running alone
MaxKeywords == 2
\* failing gh invocations while a request runs alone
MaxFaults == 4
\* longest keyword list when two requests are in flight
ConcKeywords == 1
\* failing gh invocations while two requests are in flight
ConcFaults == 1

-----------------------------------------------------------------------------
(* JavaScript values. *)

None == "none"
\* the value of a missing property (item.url of a record without url)
Undefined == "undefined"

Categories == <<"issues", "pullRequests", "code", "commits">>
CategorySet == {Categories[i] : i \in 1..Len(Categories)}

Keywords == {"auth bug", "memory leak"}

Rec(u, t) == [url |-> u, title |-> t]

\* what a successful gh search prints for a query and a category
Fixture(query, category) ==
    IF query = "auth bug" THEN
        CASE category = "issues" -> <<Rec("i1", "t1"), Rec("i2", "t2")>>
          [] category = "pullRequests" -> <<Rec("p1", "t1")>>
          [] category = "code" -> <<Rec("f1", "t1"), Rec("f1", "t2")>>
          [] category = "commits" -> <<Rec("c1", "t1")>>
    ELSE
        CASE category = "issues" -> <<Rec("i2", "t3"), Rec("i3", "t4")>>
          [] category = "pullRequests" -> <<>>
          [] category = "code" -> <<Rec("f2", "t3")>>
          [] category = "commits" -> <<Rec("c1", "t3"), Rec("c2", "t4")>>

-----------------------------------------------------------------------------
(* deduplicateByUrl: items.filter over a seen-set, left to right. *)

RECURSIVE FilterSeen(_, _)
FilterSeen(list, seen) ==
    IF list = <<>> THEN <<>>
    ELSE IF Head(list).url \in seen
         THEN FilterSeen(Tail(list), seen)
         ELSE <<Head(list)>> \o FilterSeen(Tail(list), seen \cup {Head(list).url})

\* a deduplicateByUrl that forgets to skip the records already seen
DedupKeepsAll(list) == list

\* a deduplicateByUrl that keeps the last record of each url instead of the first
RECURSIVE DedupKeepsLast(_)
DedupKeepsLast(list) ==
    IF list = <<>> THEN <<>>
    ELSE IF \E j \in 2..Len(list) : list[j].url = Head(list).url
         THEN DedupKeepsLast(Tail(list))
         ELSE <<Head(list)>> \o DedupKeepsLast(Tail(list))

deduplicateByUrl(list) == FilterSeen(list, {})

-----------------------------------------------------------------------------
(* deduplicateByUrl on its own, over every record list up to MaxLen. *)

Urls == {"a", "b", Undefined}
Records == {Rec(u, t) : u \in Urls, t \in {"t1", "t2"}}
RecordLists == UNION {[1..n -> Records] : n \in 0..MaxLen}

InitDedup ==
    /\ req = <<>>
    /\ cpu = None
    /\ faultsLeft = 0
    /\ kwLimit = 0
    /\ items \in RecordLists
    /\ out = [called |-> FALSE, value |-> <<>>]

CallDedup ==
    /\ ~out.called
    /\ out' = [called |-> TRUE, value |-> deduplicateByUrl(items)]
    /\ UNCHANGED <<req, cpu, faultsLeft, kwLimit, items>>

NextDedup == CallDedup

SpecDedup == InitDedup /\ [][NextDedup]_vars

\* the positions of list whose url occurs at no earlier position
FirstOccurrences(list) ==
    {i \in 1..Len(list) : \A j \in 1..(i - 1) : list[j].url # list[i].url}

\* the k-th smallest element of a finite set of positions
KthPosition(S, k) == CHOOSE i \in S : Cardinality({j \in S : j < i}) = k - 1

\* C1: deduplicateByUrl returns the input without every record whose url equals
\* the url of an earlier record: first occurrences kept, in the input's order,
\* no two output records sharing a url, and never more records than the input.
C1_DedupKeepsFirstOccurrences ==
    out.called =>
        /\ Len(out.value) = Cardinality(FirstOccurrences(items))
        /\ \A k \in 1..Len(out.value) :
              out.value[k] = items[KthPosition(FirstOccurrences(items), k)]
        /\ \A k, l \in 1..Len(out.value) : k # l => out.value[k].url # out.value[l].url
        /\ Len(out.value) <= Len(items)

\* a call that dropped a later record, two records without url among them
C1_Witness ==
    /\ out.called
    /\ Len(items) = 3
    /\ Len(out.value) = 2
    /\ items[1].url = Undefined
    /\ items[3].url = Undefined
    /\ items[1] # items[3]

-----------------------------------------------------------------------------
(* services/github.js: one gh invocation and the four category searches. *)

\* how one `gh search ...` child process can end: it cannot be spawned, it exits
\* non-zero, or it exits 0 having printed text that is no JSON, the JSON literal
\* null, or the JSON array of the records found
GhOutcomes(query, category) ==
    {[kind |-> "spawnError", isJson |-> FALSE, isNull |-> FALSE, value |-> <<>>],
     [kind |-> "nonZeroExit", isJson |-> FALSE, isNull |-> FALSE, value |-> <<>>],
     [kind |-> "exit0", isJson |-> FALSE, isNull |-> FALSE, value |-> <<>>],
     [kind |-> "exit0", isJson |-> TRUE, isNull |-> TRUE, value |-> <<>>],
     [kind |-> "exit0", isJson |-> TRUE, isNull |-> FALSE, value |-> Fixture(query, category)]}

NoOutcome == [kind |-> None, isJson |-> FALSE, isNull |-> FALSE, value |-> <<>>]

\* the search call failed: process error, non-zero exit, unparsable or null output
IsFailure(raw) == raw.kind # "exit0" \/ ~raw.isJson \/ raw.isNull

\* execSync throws unless the child exited 0
ExecSyncThrows(raw) == raw.kind # "exit0"

\* JSON.parse throws on text that is no JSON
JsonParseThrows(raw) == ~raw.isJson

JsNull == [isNull |-> TRUE, list |-> <<>>]

\* a ghCommand whose catch hands back a placeholder record instead of null
GhCommandLeaksFailure(raw) ==
    IF ExecSyncThrows(raw) \/ JsonParseThrows(raw)
    THEN [isNull |-> FALSE, list |-> <<Rec(Undefined, "gh command failed")>>]
    ELSE [isNull |-> raw.isNull, list |-> raw.value]

\* ghCommand: the parsed output, or null when execSync or JSON.parse threw
ghCommand(raw) ==
    IF ExecSyncThrows(raw) \/ JsonParseThrows(raw)
    THEN JsNull
    ELSE [isNull |-> raw.isNull, list |-> raw.value]

\* `value || []` of searchIssues, searchPullRequests, searchCode, searchCommits
OrEmpty(v) == IF v.isNull THEN <<>> ELSE v.list

\* the value a category search resolves to, given how its gh process ended
searchCategory(raw) == OrEmpty(ghCommand(raw))

EmptyLists == [c \in CategorySet |-> <<>>]

\* a summary that counts pull requests where the code files belong
SummarySwapped(lists) ==
    [issuesFound |-> Len(lists["issues"]),
     prsFound |-> Len(lists["code"]),
     codeFilesFound |-> Len(lists["pullRequests"]),
     commitsFound |-> Len(lists["commits"])]

\* the summary object: one count per category list
Summarize(lists) ==
    [issuesFound |-> Len(lists["issues"]),
     prsFound |-> Len(lists["pullRequests"]),
     codeFilesFound |-> Len(lists["code"]),
     commitsFound |-> Len(lists["commits"])]

\* a comprehensiveSearch that deduplicates what the searches returned
BundleDeduplicated(cur) ==
    [lists |-> [c \in CategorySet |-> deduplicateByUrl(cur[c])],
     summary |-> Summarize([c \in CategorySet |-> deduplicateByUrl(cur[c])])]

\* the object comprehensiveSearch returns once all four searches have settled
ComprehensiveResult(cur) == [lists |-> cur, summary |-> Summarize(cur)]

NoResult == [lists |-> EmptyLists, summary |-> Summarize(EmptyLists)]

-----------------------------------------------------------------------------
(* services/llm.js, the language-model collaborator: what its two calls can *)
(* return or throw.                                                         *)

\* the keyword lists extractSearchKeywords may resolve to
KeywordLists(n) == UNION {[1..k -> Keywords] : k \in 0..n}

\* the errors a language-model call may reject with: what went wrong, and
\* whether the text of error.message contains '401' or 'authentication'. The
\* message of an authentication rejection carries at least one of the two.
LlmErrors ==
    {e \in [kind : {"authentication", "other"}, has401 : BOOLEAN, hasAuthWord : BOOLEAN] :
        e.kind = "authentication" => (e.has401 \/ e.hasAuthWord)}

NoError == [kind |-> None, has401 |-> FALSE, hasAuthWord |-> FALSE]

-----------------------------------------------------------------------------
(* routes/chat.js: the pieces of the two handlers. *)

ApiKeyRequired == "API key is required. Please enter your Anthropic API key in settings."
MessageRequired == "Message is required"
QueryRequired == "Query is required"
InvalidApiKey == "Invalid API key. Please check your Anthropic API key."
GenericError == "An error occurred processing your request. Please try again."

\* a validation that lets a request without apiKey through
ApiKeyNotChecked(body) == FALSE

\* `if (!apiKey)`
MissingApiKey(body) == ~body.hasApiKey

\* `if (!message)`
MissingMessage(body) == ~body.hasMessage

\* the status the catch block of /chat answers an error with
ErrorStatus(error) == IF error.has401 \/ error.hasAuthWord THEN 401 ELSE 500

ErrorText(error) == IF ErrorStatus(error) = 401 THEN InvalidApiKey ELSE GenericError

\* accumulators that start out holding a placeholder entry
AllResultsSeeded == [EmptyLists EXCEPT !["issues"] = <<Rec(Undefined, "placeholder")>>]

\* accumulators kept in one module-level object that a new request does not
\* clear: it starts from what another request has accumulated
AllResultsShared ==
    IF \E q \in DOMAIN req : req[q].allResults # EmptyLists
    THEN req[CHOOSE q \in DOMAIN req : req[q].allResults # EmptyLists].allResults
    ELSE EmptyLists

\* `let allResults = {issues: [], pullRequests: [], code: [], commits: []}`
NewAllResults == EmptyLists

\* an accumulation that puts each keyword's records in front of the earlier ones
PushFront(acc, lists) == [c \in CategorySet |-> lists[c] \o acc[c]]

\* the four `allResults.x.push(...results.x)`
PushAll(acc, lists) == [c \in CategorySet |-> acc[c] \o lists[c]]

\* the four `allResults.x = deduplicateByUrl(allResults.x)`
DeduplicateAll(lists) == [c \in CategorySet |-> deduplicateByUrl(lists[c])]

\* `for (const keyword of keywords)`: is there a keyword at position idx
HasNext(keywords, idx) == idx <= Len(keywords)

-----------------------------------------------------------------------------
(* Requests. *)

\* a request as it arrives: the route and which fields its body carries
Arrival(route, hasMessage, hasApiKey, bodyQuery) ==
    [route |-> route, hasMessage |-> hasMessage, hasApiKey |-> hasApiKey,
     bodyQuery |-> bodyQuery,
     pc |-> "start",
     keywords |-> <<>>, idx |-> 1, allResults |-> EmptyLists,
     summary |-> Summarize(EmptyLists),
     query |-> None, cat |-> 1, cur |-> EmptyLists, raw |-> NoOutcome,
     results |-> NoResult,
     status |-> 0, error |-> "", sentSummary |-> Summarize(EmptyLists),
     sentLists |-> EmptyLists, sentKeywords |-> <<>>,
     \* what happened so far, kept for the properties only
     extractCalls |-> 0, ghCalls |-> 0, synthCalls |-> 0,
     returned |-> <<>>, failed |-> {}, synthArg |-> NoResult, caught |-> NoError]

ChatArrivals == {Arrival("chat", m, k, None) : m \in BOOLEAN, k \in BOOLEAN}
SearchArrivals == {Arrival("search", FALSE, FALSE, q) : q \in Keywords \cup {None}}

Reply(me, status, error) == [me EXCEPT !.pc = "done", !.status = status, !.error = error]

\* POST /api/chat arrives: validation, then the call of extractSearchKeywords
ReceiveChat(r) ==
    /\ cpu = None
    /\ req[r].route = "chat"
    /\ req[r].pc = "start"
    /\ req' = [req EXCEPT ![r] =
          IF MissingMessage(@) THEN Reply(@, 400, MessageRequired)
          ELSE IF MissingApiKey(@) THEN Reply(@, 400, ApiKeyRequired)
          ELSE [@ EXCEPT !.pc = "extract", !.extractCalls = @ + 1]]
    /\ UNCHANGED <<cpu, faultsLeft, kwLimit, items, out>>

\* extractSearchKeywords resolves: the accumulators are created and the loop entered
ExtractReturn(r) ==
    /\ cpu = None
    /\ req[r].pc = "extract"
    /\ \E kws \in KeywordLists(kwLimit) :
          req' = [req EXCEPT ![r] = [@ EXCEPT !.pc = "loop", !.keywords = kws,
                                                !.idx = 1, !.allResults = NewAllResults]]
    /\ cpu' = r
    /\ UNCHANGED <<faultsLeft, kwLimit, items, out>>

\* extractSearchKeywords or generateResponse rejects: the catch block answers
LlmThrow(r) ==
    /\ cpu = None
    /\ req[r].pc \in {"extract", "synth"}
    /\ \E e \in LlmErrors :
          req' = [req EXCEPT ![r] =
                    [Reply(@, ErrorStatus(e), ErrorText(e)) EXCEPT !.caught = e]]
    /\ UNCHANGED <<cpu, faultsLeft, kwLimit, items, out>>

\* the loop takes the next keyword and calls comprehensiveSearch with it
LoopCall(r) ==
    /\ cpu = r
    /\ req[r].pc = "loop"
    /\ HasNext(req[r].keywords, req[r].idx)
    /\ req' = [req EXCEPT ![r] = [@ EXCEPT !.pc = "cs", !.query = req[r].keywords[req[r].idx],
                                          !.cat = 1, !.cur = EmptyLists, !.failed = {}]]
    /\ UNCHANGED <<cpu, faultsLeft, kwLimit, items, out>>

\* the loop is over: deduplication, the summary, and the call of generateResponse
LoopExit(r) ==
    /\ cpu = r
    /\ req[r].pc = "loop"
    /\ ~HasNext(req[r].keywords, req[r].idx)
    /\ LET deduped == DeduplicateAll(req[r].allResults)
           bundle == [lists |-> deduped, summary |-> Summarize(deduped)]
       IN req' = [req EXCEPT ![r] = [@ EXCEPT !.pc = "synth", !.allResults = deduped,
                                             !.summary = Summarize(deduped),
                                             !.synthCalls = @ + 1, !.synthArg = bundle]]
    /\ cpu' = None
    /\ UNCHANGED <<faultsLeft, kwLimit, items, out>>

\* generateResponse resolves: res.json({response, searchSummary, keywords})
SynthReturn(r) ==
    /\ cpu = None
    /\ req[r].pc = "synth"
    /\ req' = [req EXCEPT ![r] = [@ EXCEPT !.pc = "done", !.status = 200,
                                          !.sentSummary = req[r].summary,
                                          !.sentKeywords = req[r].keywords]]
    /\ UNCHANGED <<cpu, faultsLeft, kwLimit, items, out>>

\* POST /api/search arrives: validation, then the call of comprehensiveSearch
ReceiveSearch(r) ==
    /\ cpu = None
    /\ req[r].route = "search"
    /\ req[r].pc = "start"
    /\ IF req[r].bodyQuery = None
       THEN /\ req' = [req EXCEPT ![r] = Reply(@, 400, QueryRequired)]
            /\ cpu' = cpu
       ELSE /\ req' = [req EXCEPT ![r] = [@ EXCEPT !.pc = "cs", !.query = req[r].bodyQuery,
                                                   !.cat = 1, !.cur = EmptyLists,
                                                   !.failed = {}]]
            /\ cpu' = r
    /\ UNCHANGED <<faultsLeft, kwLimit, items, out>>

\* the next category search of Promise.all's array is called: execSync starts gh
\* and blocks the event loop until the child process has ended
Spawn(r) ==
    /\ cpu = r
    /\ req[r].pc = "cs"
    /\ req[r].cat <= Len(Categories)
    /\ req' = [req EXCEPT ![r] = [@ EXCEPT !.pc = "spawned", !.ghCalls = @ + 1]]
    /\ UNCHANGED <<cpu, faultsLeft, kwLimit, items, out>>

\* the gh child process ends, one way or another
GhExit(r) ==
    /\ cpu = r
    /\ req[r].pc = "spawned"
    /\ \E raw \in GhOutcomes(req[r].query, Categories[req[r].cat]) :
          /\ IsFailure(raw) => faultsLeft > 0
          /\ faultsLeft' = IF IsFailure(raw) THEN faultsLeft - 1 ELSE faultsLeft
          /\ req' = [req EXCEPT ![r] = [@ EXCEPT !.pc = "exited", !.raw = raw]]
    /\ UNCHANGED <<cpu, kwLimit, items, out>>

\* ghCommand returns and the category search resolves to its list
SearchReturn(r) ==
    /\ cpu = r
    /\ req[r].pc = "exited"
    /\ LET c == Categories[req[r].cat]
       IN req' = [req EXCEPT ![r] =
             [@ EXCEPT !.pc = "cs", !.cur[c] = searchCategory(req[r].raw),
                       !.failed = IF IsFailure(req[r].raw) THEN @ \cup {c} ELSE @,
                       !.raw = NoOutcome, !.cat = @ + 1]]
    /\ UNCHANGED <<cpu, faultsLeft, kwLimit, items, out>>

\* all four promises are settled: comprehensiveSearch builds its result, and the
\* handler that awaits it gives up the event loop
SearchDone(r) ==
    /\ cpu = r
    /\ req[r].pc = "cs"
    /\ req[r].cat > Len(Categories)
    /\ req' = [req EXCEPT ![r] =
          [@ EXCEPT !.pc = "resolved", !.results = ComprehensiveResult(req[r].cur),
                    !.returned = Append(@, [query |-> req[r].query,
                                            lists |-> ComprehensiveResult(req[r].cur).lists,
                                            failed |-> req[r].failed])]]
    /\ cpu' = None
    /\ UNCHANGED <<faultsLeft, kwLimit, items, out>>

\* /chat resumes after `await comprehensiveSearch`: the four pushes
ResumeChat(r) ==
    /\ cpu = None
    /\ req[r].route = "chat"
    /\ req[r].pc = "resolved"
    /\ req' = [req EXCEPT ![r] =
          [@ EXCEPT !.pc = "loop", !.allResults = PushAll(@, req[r].results.lists),
                    !.idx = @ + 1]]
    /\ cpu' = r
    /\ UNCHANGED <<faultsLeft, kwLimit, items, out>>

\* /search resumes after `await comprehensiveSearch`: res.json(results)
ResumeSearch(r) ==
    /\ cpu = None
    /\ req[r].route = "search"
    /\ req[r].pc = "resolved"
    /\ req' = [req EXCEPT ![r] = [@ EXCEPT !.pc = "done", !.status = 200,
                                          !.sentLists = req[r].results.lists,
                                          !.sentSummary = req[r].results.summary]]
    /\ UNCHANGED <<cpu, faultsLeft, kwLimit, items, out>>

Next ==
    \/ \E r \in DOMAIN req : ReceiveChat(r)
    \/ \E r \in DOMAIN req : ExtractReturn(r)
    \/ \E r \in DOMAIN req : LlmThrow(r)
    \/ \E r \in DOMAIN req : LoopCall(r)
    \/ \E r \in DOMAIN req : LoopExit(r)
    \/ \E r \in DOMAIN req : SynthReturn(r)
    \/ \E r \in DOMAIN req : ReceiveSearch(r)
    \/ \E r \in DOMAIN req : Spawn(r)
    \/ \E r \in DOMAIN req : GhExit(r)
    \/ \E r \in DOMAIN req : SearchReturn(r)
    \/ \E r \in DOMAIN req : SearchDone(r)
    \/ \E r \in DOMAIN req : ResumeChat(r)
    \/ \E r \in DOMAIN req : ResumeSearch(r)

\* one request, of either route, valid or not
Init ==
    /\ req \in [{"r1"} -> ChatArrivals \cup SearchArrivals]
    /\ cpu = None
    /\ faultsLeft = MaxFaults
    /\ kwLimit = MaxKeywords
    /\ items = <<>>
    /\ out = [called |-> FALSE, value |-> <<>>]

Spec == Init /\ [][Next]_vars

\* the steps of /api/chat requests whose language-model calls succeed
NextConc ==
    \/ \E r \in DOMAIN req : ReceiveChat(r)
    \/ \E r \in DOMAIN req : ExtractReturn(r)
    \/ \E r \in DOMAIN req : LoopCall(r)
    \/ \E r \in DOMAIN req : LoopExit(r)
    \/ \E r \in DOMAIN req : SynthReturn(r)
    \/ \E r \in DOMAIN req : Spawn(r)
    \/ \E r \in DOMAIN req : GhExit(r)
    \/ \E r \in DOMAIN req : SearchReturn(r)
    \/ \E r \in DOMAIN req : SearchDone(r)
    \/ \E r \in DOMAIN req : ResumeChat(r)

\* two /api/chat requests in flight at once, the first of them valid
InitConc ==
    /\ req \in [{"r1", "r2"} -> ChatArrivals]
    /\ req["r1"] = Arrival("chat", TRUE, TRUE, None)
    /\ cpu = None
    /\ faultsLeft = ConcFaults
    /\ kwLimit = ConcKeywords
    /\ items = <<>>
    /\ out = [called |-> FALSE, value |-> <<>>]

SpecConc == InitConc /\ [][NextConc]_vars

-----------------------------------------------------------------------------
(* What the properties speak of. *)

Requests == DOMAIN req
ChatRequests == {r \in Requests : req[r].route = "chat"}
SearchRequests == {r \in Requests : req[r].route = "search"}

\* inside a comprehensiveSearch call whose promise has not been awaited yet
InSearch(r) == req[r].pc \in {"cs", "spawned", "exited"}

\* the category searches of the current call that were called, and those that
\* have resolved
Started(r) ==
    {Categories[i] : i \in 1..(IF req[r].pc \in {"spawned", "exited"}
                               THEN req[r].cat ELSE req[r].cat - 1)}
Settled(r) == {Categories[i] : i \in 1..(req[r].cat - 1)}

\* the list made of the first occurrence of each url of list, in list's order
FirstOccurrenceList(list) ==
    [k \in 1..Cardinality(FirstOccurrences(list)) |->
        list[KthPosition(FirstOccurrences(list), k)]]

\* the lists of the first n comprehensiveSearch results of a request, one after
\* the other, per category
RECURSIVE Concatenated(_, _)
Concatenated(returned, n) ==
    IF n = 0 THEN EmptyLists
    ELSE [c \in CategorySet |-> Concatenated(returned, n - 1)[c] \o returned[n].lists[c]]

\* the bundle a request produces from its own search results when it runs alone
Alone(returned) ==
    LET lists == [c \in CategorySet |->
                    FirstOccurrenceList(Concatenated(returned, Len(returned))[c])]
    IN [lists |-> lists,
        summary |-> [issuesFound |-> Len(lists["issues"]),
                     prsFound |-> Len(lists["pullRequests"]),
                     codeFilesFound |-> Len(lists["code"]),
                     commitsFound |-> Len(lists["commits"])]]

ZeroSummary == [issuesFound |-> 0, prsFound |-> 0, codeFilesFound |-> 0, commitsFound |-> 0]

\* C2: a /api/chat request with a message and no apiKey is answered 400 with the
\* API-key text, and no keyword extraction, search or synthesis call is made.
C2_MissingApiKeyRejected ==
    \A r \in ChatRequests :
        (req[r].hasMessage /\ ~req[r].hasApiKey) =>
            /\ req[r].extractCalls = 0
            /\ req[r].ghCalls = 0
            /\ req[r].synthCalls = 0
            /\ req[r].pc \in {"start", "done"}
            /\ req[r].pc = "done" =>
                  (req[r].status = 400 /\ req[r].error = ApiKeyRequired)

C2_Witness ==
    \E r \in ChatRequests :
        /\ req[r].hasMessage
        /\ ~req[r].hasApiKey
        /\ req[r].pc = "done"
        /\ req[r].status = 400

\* C3: a request that passed validation and failed is answered 401 exactly when
\* the failure is an authentication rejection of the language model, and 500
\* exactly when it is any other failure.
C3_StatusFollowsErrorKind ==
    \A r \in ChatRequests :
        req[r].caught.kind # None =>
            /\ req[r].status = 401 <=> req[r].caught.kind = "authentication"
            /\ req[r].status = 500 <=> req[r].caught.kind # "authentication"

C5_EmptyKeywordList ==
    \A r \in ChatRequests :
        req[r].keywords = <<>> =>
            /\ req[r].ghCalls = 0
            /\ req[r].synthCalls = 1 =>
                  /\ req[r].synthArg.lists = EmptyLists
                  /\ req[r].synthArg.summary = ZeroSummary
            /\ req[r].status = 200 => req[r].sentSummary = ZeroSummary

C5_Witness ==
    \E r \in ChatRequests :
        /\ req[r].keywords = <<>>
        /\ req[r].synthCalls = 1
        /\ req[r].status = 200

\* the search of a /api/search request in which no gh invocation failed
FromFixtures(r) ==
    /\ req[r].status = 200
    /\ Len(req[r].returned) = 1
    /\ req[r].returned[1].failed = {}

\* C6 as stated: the lists /api/search answers with are the url-deduplicated
\* fixtures, and the summary fields are the lengths of the answered lists.
C6_SearchAnswersDeduplicatedFixtures ==
    \A r \in SearchRequests :
        FromFixtures(r) =>
            /\ \A c \in CategorySet :
                  req[r].sentLists[c] = FirstOccurrenceList(Fixture(req[r].bodyQuery, c))
            /\ req[r].sentSummary = Summarize(req[r].sentLists)

\* C6 amended: the lists /api/search answers with are the fixtures as the
\* searches returned them, repeated urls included, and the summary fields are
\* the lengths of the answered lists.
C6_SearchAnswersFixturesAsReturned ==
    \A r \in SearchRequests :
        /\ FromFixtures(r) =>
              \A c \in CategorySet : req[r].sentLists[c] = Fixture(req[r].bodyQuery, c)
        /\ req[r].status = 200 =>
              /\ req[r].sentSummary.issuesFound = Len(req[r].sentLists["issues"])
              /\ req[r].sentSummary.prsFound = Len(req[r].sentLists["pullRequests"])
              /\ req[r].sentSummary.codeFilesFound = Len(req[r].sentLists["code"])
              /\ req[r].sentSummary.commitsFound = Len(req[r].sentLists["commits"])

\* a /api/search answer holding two records of one url
C6_Witness ==
    \E r \in SearchRequests :
        /\ FromFixtures(r)
        /\ Len(req[r].sentLists["code"]) = 2
        /\ req[r].sentLists["code"][1].url = req[r].sentLists["code"][2].url
        /\ req[r].sentSummary.codeFilesFound = 2

\* C7: the keyword list holding one keyword twice, both searches returning the
\* same lists, gives the bundle and the counts of that keyword searched once.
C7_DuplicateKeywordAddsNothing ==
    \A r \in ChatRequests :
        (/\ req[r].synthCalls = 1
         /\ Len(req[r].keywords) = 2
         /\ req[r].keywords[1] = req[r].keywords[2]
         /\ req[r].returned[1].lists = req[r].returned[2].lists) =>
            /\ req[r].synthArg = Alone(<<req[r].returned[1]>>)
            /\ req[r].status = 200 =>
                  req[r].sentSummary = Alone(<<req[r].returned[1]>>).summary

C7_Witness ==
    \E r \in ChatRequests :
        /\ req[r].status = 200
        /\ req[r].keywords = <<"auth bug", "auth bug">>
        /\ req[r].returned[1].lists = req[r].returned[2].lists
        /\ req[r].returned[1].failed = {}
        /\ req[r].sentSummary.issuesFound = 2

\* C8 as stated: the four category searches of one comprehensiveSearch call are
\* in flight together, so none of them has ended before all four were started.
C8_SearchesRunConcurrently ==
    \A r \in Requests :
        (InSearch(r) /\ (req[r].pc = "exited" \/ Settled(r) # {})) =>
            Started(r) = CategorySet

\* C9: extraction before any search; keywords searched one at a time in list
\* order, each after the lists of the one before were appended; deduplication
\* after the last keyword; one synthesis call, with the deduplicated bundle;
\* the response after synthesis.
C9_StepsInOrder ==
    \A r \in ChatRequests :
        /\ req[r].pc \in {"start", "extract"} =>
              (req[r].ghCalls = 0 /\ req[r].returned = <<>> /\ req[r].synthCalls = 0)
        /\ req[r].ghCalls > 0 => req[r].extractCalls = 1
        /\ \A i \in 1..Len(req[r].returned) :
              i <= Len(req[r].keywords) /\ req[r].returned[i].query = req[r].keywords[i]
        /\ InSearch(r) =>
              /\ req[r].query = req[r].keywords[req[r].idx]
              /\ Len(req[r].returned) = req[r].idx - 1
        /\ req[r].pc \in {"loop", "cs", "spawned", "exited", "resolved"} =>
              /\ req[r].synthCalls = 0
              /\ req[r].allResults = Concatenated(req[r].returned, req[r].idx - 1)
        /\ req[r].synthCalls <= 1
        /\ req[r].synthCalls = 1 =>
              /\ Len(req[r].returned) = Len(req[r].keywords)
              /\ req[r].synthArg = Alone(req[r].returned)
        /\ req[r].status = 200 =>
              (req[r].synthCalls = 1 /\ req[r].sentSummary = req[r].synthArg.summary)

\* two different keywords searched in order, their issues merged to three
C9_Witness ==
    \E r \in ChatRequests :
        /\ req[r].status = 200
        /\ req[r].keywords = <<"auth bug", "memory leak">>
        /\ req[r].returned[1].failed = {}
        /\ req[r].returned[2].failed = {}
        /\ req[r].sentSummary.issuesFound = 3

\* the records of the lists of a bundle
RecordsOf(lists) == UNION {{lists[c][i] : i \in 1..Len(lists[c])} : c \in CategorySet}

\* C10: with two requests in flight, the bundle and the searchSummary of each
\* hold records of its own searches only and are those of the request alone.
C10_RequestsAreIsolated ==
    \A r \in ChatRequests :
        /\ RecordsOf(req[r].allResults) \subseteq
              RecordsOf(Concatenated(req[r].returned, Len(req[r].returned)))
        /\ req[r].synthCalls = 1 => req[r].synthArg = Alone(req[r].returned)
        /\ req[r].status = 200 => req[r].sentSummary = Alone(req[r].returned).summary

\* both requests in flight with results of different keywords: one awaits the
\* synthesis while the other awaits its search
C10_Witness ==
    /\ Requests = {"r1", "r2"}
    /\ req["r1"].route = "chat" /\ req["r2"].route = "chat"
    /\ req["r1"].pc = "synth"
    /\ req["r2"].pc = "resolved"
    /\ req["r1"].keywords = <<"auth bug">>
    /\ req["r2"].keywords = <<"memory leak">>
    /\ req["r1"].synthArg.summary.issuesFound = 2
    /\ req["r2"].results.summary.issuesFound = 2

====
